---------------------------- MODULE Spec2Model ----------------------------
(***************************************************************************)
(* A model of intake-axds' sensor source (src/intake_axds/axds.py):        *)
(* the filter fan-out (_get_filters), the feed parser with its QARTOD      *)
(* masking (_load_to_dataframe), the assembly of the per-filter tables     *)
(* (_load) and the cache life cycle (_get_schema, _get_partition, read,    *)
(* _close).                                                                *)
(*                                                                         *)
(* Conventions.  Python's None is the empty sequence and a present value v *)
(* is <<v>>; pd.NA in a table cell is the empty sequence too.  A Python    *)
(* string built by an f-string is the sequence of its pieces, so that two  *)
(* strings are equal exactly when they are built from the same pieces.     *)
(* A DataFrame is [index_names, columns, rows], rows a sequence of         *)
(* [key, cells] in index order.                                            *)
(***************************************************************************)
EXTENDS Integers, Sequences, FiniteSets, TLC

VARIABLES
    metadata,       \* self.metadata: the station (version, variables_details, ...)
    qartod,         \* self.cat.metadata["qartod"], as the parser reads it
    use_units,      \* the catalog's use_units option
    kwargs_search,  \* self.kwargs_search
    dataframe,      \* self._dataframe: None or the cached table
    schema,         \* self._schema of intake's DataSource: None or the memoized schema
    filters,        \* the filters the last _load computed
    data_raw,       \* the responses the last call fetched, one per request issued
    out,            \* what the last call gave its caller
    urls,           \* the data URLs the last call requested
    api,            \* the sensor API: the response to each request of the station
    set_order,      \* the order in which list(set(pgids)) gives the ids
    cat             \* the AXDSCatalog object: None until one is constructed

vars == <<metadata, qartod, use_units, kwargs_search, dataframe, schema, filters,
          data_raw, out, urls, api, set_order, cat>>

-----------------------------------------------------------------------------
(* Bounds of the model *)

\* variables a station declares, at most
MaxVars == 2
\* rows a feed carries, at most
MaxRows == 2

-----------------------------------------------------------------------------
(* Values *)

None == <<>>
NA == <<>>
Some(v) == <<v>>

\* QARTOD aggregate flags used in feeds (a part of 1, 2, 3, 4, 9)
Flags == {1, 3, 4}
\* the deviceIds and parameter group ids of the stations and the feeds
DeviceIds == {101, 102}
PgIds == {22, 25}
\* variable keys (datasetVariableId), by position in variables_details
VarKeys == <<"v1", "v2", "v3", "v4">>

Range(s) == {s[i] : i \in DOMAIN s}

\* the element of a set of one element: The({e(x) : x \in {v}}) is e(v),
\* with v worked out once
The(S) == CHOOSE x \in S : TRUE

SeqsUpTo(S, n) == UNION {[1..k -> S] : k \in 0..n}

\* the strictly increasing sequences over a set of integers
AscSeqs(S) ==
    {s \in SeqsUpTo(S, Cardinality(S)) :
        \A i \in DOMAIN s : \A j \in DOMAIN s : i < j => s[i] < s[j]}

-----------------------------------------------------------------------------
(* The catalog's qartod option: bool | int | str | list of int.            *)
(* flags holds the value: <<0>>/<<1>> for False/True, <<n>> for the int n  *)
(* and for the string "n", the elements for a list.                        *)

QBool(b) == [kind |-> "bool", flags |-> IF b THEN <<1>> ELSE <<0>>]
QInt(n) == [kind |-> "int", flags |-> <<n>>]
QStr(n) == [kind |-> "str", flags |-> <<n>>]
QList(l) == [kind |-> "list", flags |-> l]

\* isinstance(qartod, (str, list))
IsStrOrList(q) == q.kind \in {"str", "list"}

\* Python's truth value of the option
Truthy(q) ==
    CASE q.kind = "bool" -> q.flags[1] # 0
      [] q.kind = "int" -> q.flags[1] # 0
      [] q.kind = "str" -> TRUE          \* a non-empty string
      [] q.kind = "list" -> q.flags # <<>>

-----------------------------------------------------------------------------
(* make_label of axds.py *)

make_label(label, units) ==
    IF units = None THEN <<label>>
    ELSE <<label, " [", units[1], "]">>

\* make_label of utils.py, which takes the use_units option
utils_make_label(label, units, use) ==
    IF units = None \/ ~use THEN <<label>>
    ELSE <<label, " [", units[1], "]">>

-----------------------------------------------------------------------------
(* Tables (pandas DataFrames with unique, sorted index labels) *)

\* index labels are tuples (time) or (time, z), ordered as pandas orders them
KeyLess(a, b) ==
    \/ a[1] < b[1]
    \/ a[1] = b[1] /\ Len(a) > 1 /\ Len(b) > 1 /\ a[2] < b[2]

RECURSIVE SortKeys(_)
SortKeys(S) ==
    IF S = {} THEN <<>>
    ELSE LET m == CHOOSE x \in S : \A y \in S : x = y \/ KeyLess(x, y)
         IN <<m>> \o SortKeys(S \ {m})

Keys(df) == {df.rows[i].key : i \in DOMAIN df.rows}

\* the cells of the row labelled k, missing everywhere when df has no such row
CellsAt(df, k) ==
    IF k \in Keys(df)
    THEN (CHOOSE r \in Range(df.rows) : r.key = k).cells
    ELSE [c \in DOMAIN df.columns |-> NA]

\* the positions of the columns named name
ColsNamed(df, name) == {c \in DOMAIN df.columns : df.columns[c] = name}

\* alignment that keeps only the labels both tables have
OuterJoin_inner(a, b) ==
    LET keys == SortKeys(Keys(a) \cap Keys(b))
    IN [index_names |-> a.index_names,
        columns |-> a.columns \o b.columns,
        rows |-> [i \in DOMAIN keys |->
                    [key |-> keys[i],
                     cells |-> CellsAt(a, keys[i]) \o CellsAt(b, keys[i])]]]

\* alignment that keeps only the labels of the left table
OuterJoin_left(a, b) ==
    LET keys == SortKeys(Keys(a))
    IN [index_names |-> a.index_names,
        columns |-> a.columns \o b.columns,
        rows |-> [i \in DOMAIN keys |->
                    [key |-> keys[i],
                     cells |-> CellsAt(a, keys[i]) \o CellsAt(b, keys[i])]]]

\* outer alignment on the index, sorted, columns of a then columns of b
OuterJoin(a, b) ==
    LET keys == SortKeys(Keys(a) \cup Keys(b))
    IN [index_names |-> a.index_names,
        columns |-> a.columns \o b.columns,
        rows |-> [i \in DOMAIN keys |->
                    [key |-> keys[i],
                     cells |-> CellsAt(a, keys[i]) \o CellsAt(b, keys[i])]]]

\* pd.concat(dfs, axis=1), for a non-empty list of tables of one index structure
RECURSIVE concat(_)
concat(dfs) ==
    IF Len(dfs) = 1 THEN dfs[1]
    ELSE OuterJoin(concat(SubSeq(dfs, 1, Len(dfs) - 1)), dfs[Len(dfs)])

\* df.drop(labels=name, axis=1)
drop(df, name) ==
    LET keep == SelectSeq([c \in DOMAIN df.columns |-> c],
                          LAMBDA c : df.columns[c] # name)
    IN [index_names |-> df.index_names,
        columns |-> [i \in DOMAIN keep |-> df.columns[keep[i]]],
        rows |-> [r \in DOMAIN df.rows |->
                    [key |-> df.rows[r].key,
                     cells |-> [i \in DOMAIN keep |-> df.rows[r].cells[keep[i]]]]]]

-----------------------------------------------------------------------------
(* The feed parser: AXDSSensorSource._load_to_dataframe *)

\* [var for var in variables_details if variables_details[var]["deviceId"] == dev]
VarsOfDevice(vd, dev) == SelectSeq(vd, LAMBDA v : v.deviceId = dev)

\* the index descriptors with the depth before the time
IndexDescs_zfirst(feed) == feed.z \o <<feed.time>>

\* the index descriptors of a feed: time, then z when it is not None
IndexDescs(feed) == <<feed.time>> \o feed.z

ind_names(feed) ==
    LET ds == IndexDescs(feed)
    IN [i \in DOMAIN ds |-> make_label(ds[i].label, ds[i].units)]

\* data_cols, in the order of feed["metadata"]["values"]
data_cols(feed, vd) ==
    [i \in DOMAIN feed.values |->
        LET d == feed.values[i]
            label == VarsOfDevice(vd, d.deviceId)[1].key
        IN [index |-> d.index, deviceId |-> d.deviceId, label |-> label,
            column_name |-> make_label(label, d.units)]]

\* qa_cols, in the order of feed["metadata"]["qcAgg"]
qa_cols(feed, vd) ==
    [i \in DOMAIN feed.qcAgg |->
        LET d == feed.qcAgg[i]
            label == VarsOfDevice(vd, d.deviceId)[1].key
            dc == data_cols(feed, vd)
            name == SelectSeq(dc, LAMBDA c : c.deviceId = d.deviceId)[1].column_name
        IN [index |-> d.index, deviceId |-> d.deviceId,
            column_name |-> <<label, "_qc_agg">>, data_name |-> name]]

\* the [0] of the list comprehensions finds an element
DataLookupOk(feed, vd) ==
    \A i \in DOMAIN feed.values : VarsOfDevice(vd, feed.values[i].deviceId) # <<>>

QaLookupOk(feed, vd) ==
    \A i \in DOMAIN feed.qcAgg :
        /\ VarsOfDevice(vd, feed.qcAgg[i].deviceId) # <<>>
        /\ \E j \in DOMAIN feed.values :
              feed.values[j].deviceId = feed.qcAgg[i].deviceId

\* the QC columns read for a string or a list only
ReadsQc_listonly(q) == IsStrOrList(q)

\* the QC columns read whatever the option
ReadsQc_always(q) == TRUE

\* whether the QC columns are read: isinstance(qartod, (str, list)) or qartod
ReadsQc(q) == IsStrOrList(q) \/ Truthy(q)

\* the table made of the feed's row records: the index and the kept columns
frame(feed, cols) ==
    LET ds == IndexDescs(feed)
    IN [index_names |-> ind_names(feed),
        columns |-> [c \in DOMAIN cols |-> cols[c].column_name],
        rows |-> [r \in DOMAIN feed.data |->
                    [key |-> [i \in DOMAIN ds |-> feed.data[r][ds[i].index]],
                     cells |-> [c \in DOMAIN cols |->
                                  Some(feed.data[r][cols[c].index])]]]]

\* the flags the masking loops over: [qartod] for a string, the list itself
\* otherwise; a string never equals the integer flag of a cell
MaskFlags(q) ==
    [i \in DOMAIN q.flags |-> [isstr |-> q.kind = "str", v |-> q.flags[i]]]

\* df[qa_name] != qa, for one cell
Differs(cell, qa) == qa.isstr \/ cell # Some(qa.v)

\* masking that also rejects the row after a row whose data cell is missing
MaskOne_spreading(df, qa_name, data_name, qa) ==
    LET qc == CHOOSE c \in ColsNamed(df, qa_name) :
                  \A d \in ColsNamed(df, qa_name) : c <= d
    IN [df EXCEPT !.rows =
          [r \in DOMAIN df.rows |->
             [df.rows[r] EXCEPT !.cells =
                [c \in DOMAIN df.columns |->
                   IF c \in ColsNamed(df, data_name)
                        /\ \/ Differs(df.rows[r].cells[qc], qa)
                           \/ r > 1 /\ df.rows[r - 1].cells[c] = NA
                   THEN NA ELSE df.rows[r].cells[c]]]]]

\* df.loc[df[qa_name] != qa, data_name] = pd.NA
MaskOne(df, qa_name, data_name, qa) ==
    LET qc == CHOOSE c \in ColsNamed(df, qa_name) :
                  \A d \in ColsNamed(df, qa_name) : c <= d
    IN [df EXCEPT !.rows =
          [r \in DOMAIN df.rows |->
             [df.rows[r] EXCEPT !.cells =
                [c \in DOMAIN df.columns |->
                   IF c \in ColsNamed(df, data_name)
                        /\ Differs(df.rows[r].cells[qc], qa)
                   THEN NA ELSE df.rows[r].cells[c]]]]]

\* for qa in qartod: ... , for one QC column
RECURSIVE MaskColumn(_, _, _, _)
MaskColumn(df, qa_name, data_name, flags) ==
    IF flags = <<>> THEN df
    ELSE MaskColumn(MaskOne(df, qa_name, data_name, Head(flags)),
                    qa_name, data_name, Tail(flags))

\* for ind in qa_cols: ...
RECURSIVE MaskAll(_, _, _)
MaskAll(df, qas, flags) ==
    IF qas = <<>> THEN df
    ELSE MaskAll(MaskColumn(df, Head(qas).column_name, Head(qas).data_name, flags),
                 Tail(qas), flags)

\* a feed rejected only when it has both coordinates
HasHorizontal_both(feed) == feed.lon # None /\ feed.lat # None

\* the test of line 105: a longitude or a latitude
HasHorizontal(feed) == feed.lon # None \/ feed.lat # None

\* One turn of the loop over the feeds.  qa_prev is the function's local
\* qa_name as the turns before left it (None: not bound yet).
\* Gives [err, df, qa_name]; err = "" when the turn appended df to dfs.
ParseFeed(feed, q, vd, qa_prev) ==
    LET fail(e) == [err |-> e, df |-> None, qa_name |-> qa_prev]
    IN
    IF HasHorizontal(feed) THEN fail("ValueError")
    ELSE IF ~DataLookupOk(feed, vd) THEN fail("IndexError")
    ELSE IF ReadsQc(q) /\ ~QaLookupOk(feed, vd) THEN fail("IndexError")
    ELSE
    LET dc == data_cols(feed, vd)
        qc == IF ReadsQc(q) THEN qa_cols(feed, vd) ELSE <<>>
        df == frame(feed, dc \o qc)
    IN
    IF ~IsStrOrList(q) THEN [err |-> "", df |-> Some(df), qa_name |-> qa_prev]
    ELSE
    LET masked == MaskAll(df, qc, MaskFlags(q))
        qa_name == IF qc = <<>> THEN qa_prev ELSE Some(qc[Len(qc)].column_name)
    IN
    IF qa_name = None THEN fail("UnboundLocalError")
    ELSE IF ColsNamed(masked, qa_name[1]) = {}
    THEN [err |-> "KeyError", df |-> None, qa_name |-> qa_name]
    ELSE [err |-> "", df |-> Some(drop(masked, qa_name[1])), qa_name |-> qa_name]

\* the loop over the feeds: the tables appended to dfs, or the first error
RECURSIVE ParseFeeds(_, _, _, _, _)
ParseFeeds(feeds, q, vd, qa_prev, dfs) ==
    IF feeds = <<>> THEN [err |-> "", dfs |-> dfs]
    ELSE LET one == ParseFeed(Head(feeds), q, vd, qa_prev)
         IN IF one.err # "" THEN [err |-> one.err, dfs |-> dfs]
            ELSE ParseFeeds(Tail(feeds), q, vd, one.qa_name, dfs \o one.df)

\* _load_to_dataframe(url) on the response feeds.  pdb says how the user
\* leaves the debugger of line 83: "continue" or "quit" (BdbQuit).
\* Gives [err, df, dfs, breakpoint]: the exception raised or "", the table
\* returned or None, the per-feed tables built, whether the debugger stopped.
load_to_dataframe(feeds, q, vd, pdb) ==
    IF Len(feeds) = 0
    THEN [err |-> IF pdb = "quit" THEN "BdbQuit" ELSE "",
          df |-> None, dfs |-> <<>>, breakpoint |-> TRUE]
    ELSE LET p == ParseFeeds(feeds, q, vd, None, <<>>)
         IN [err |-> p.err,
             df |-> IF p.err = "" THEN Some(concat(p.dfs)) ELSE None,
             dfs |-> p.dfs, breakpoint |-> FALSE]

-----------------------------------------------------------------------------
(* The filters and the load: _get_filters and _load *)

\* the distinct parameterGroupIds of the station's variables: set(pgids)
PgidSet(md) ==
    {md.variables_details[i].parameterGroupId : i \in DOMAIN md.variables_details}

\* the orders in which list(set(pgids)) may give the ids
Orders(S) ==
    {s \in [1..Cardinality(S) -> S] :
        \A i \in DOMAIN s : \A j \in DOMAIN s : i # j => s[i] # s[j]}

\* an identifier in an f-string: None is written "None"
Fmt(x) == IF x = None THEN "None" ELSE x[1]

\* one filter per variable, not per distinct parameter group
get_filters_per_variable(md, order) ==
    IF md.version = 1
    THEN [i \in DOMAIN md.variables_details |->
            <<"%7B", "%22stations%22", "%3A", "%5B", Fmt(md.internal_id), "%5D",
              "%2C", "%22parameterGroups%22", "%3A", "%5B",
              ToString(md.variables_details[i].parameterGroupId), "%5D", "%7D">>]
    ELSE << <<"%7B", "%22stations%22", ":", "%5B", "%22", Fmt(md.internal_id),
              "%22", "%5D", "%7D">> >>

\* _get_filters; order is list(set(pgids)).  A filter is the sequence of the
\* URL-encoded pieces of its string.
get_filters(md, order) ==
    IF md.version = 1
    THEN [i \in DOMAIN order |->
            <<"%7B", "%22stations%22", "%3A", "%5B", Fmt(md.internal_id), "%5D",
              "%2C", "%22parameterGroups%22", "%3A", "%5B",
              ToString(order[i]), "%5D", "%7D">>]
    ELSE << <<"%7B", "%22stations%22", ":", "%5B", "%22", Fmt(md.internal_id),
              "%22", "%5D", "%7D">> >>

\* pd.Timestamp(t).strftime("%Y-%m-%dT%H:%M:%S") on the times of the model
strftime(t) ==
    CASE t = "2021-1-1" -> "2021-01-01T00:00:00"
      [] t = "2021-1-2" -> "2021-01-02T00:00:00"
      [] t = "2019-03-15T02:58:51.000Z" -> "2019-03-15T02:58:51"
      [] t = "2023-01-01T00:00:00.000Z" -> "2023-01-01T00:00:00"
      [] OTHER -> t

\* a time window that takes each bound from kwargs_search when it is there
TimeWindow_mixed(md, kw) ==
    <<IF "min_time" \in DOMAIN kw THEN kw["min_time"] ELSE md.minTime,
      IF "max_time" \in DOMAIN kw THEN kw["max_time"] ELSE md.maxTime>>

\* the time window of a load: lines 177-183
TimeWindow(md, kw) ==
    IF "min_time" \notin DOMAIN kw \/ "max_time" \notin DOMAIN kw
    THEN <<md.minTime, md.maxTime>>
    ELSE <<kw["min_time"], kw["max_time"]>>

baseurl == "https://sensors.axds.co/api"

\* data_raw_url of line 196
data_raw_url(filter, start_date, end_date) ==
    <<baseurl, "/observations/filter/custom?filter=">> \o filter
        \o <<"&start=", start_date, "Z", "&end=", end_date, "Z">>

\* the loop of lines 195-197 from filter i on: each filter's response parsed
\* and appended to dfs, up to the first exception.  n counts the requests
\* and got the responses received; requests.get of request down raises
\* (line 78), down = 0 when the network answers every request.
RECURSIVE FetchAll(_, _, _, _, _, _, _)
FetchAll(resps, q, vd, pdb, down, i, acc) ==
    IF i > Len(resps) THEN acc
    ELSE IF i = down
    THEN [err |-> "ConnectionError", dfs |-> acc.dfs, n |-> i, got |-> i - 1,
          breakpoint |-> acc.breakpoint]
    ELSE The({IF r.err # ""
              THEN [err |-> r.err, dfs |-> acc.dfs, n |-> i, got |-> i,
                    breakpoint |-> acc.breakpoint \/ r.breakpoint]
              ELSE FetchAll(resps, q, vd, pdb, down, i + 1,
                            [err |-> "", dfs |-> acc.dfs \o <<r.df>>, n |-> i,
                             got |-> i,
                             breakpoint |-> acc.breakpoint \/ r.breakpoint]) :
              r \in {load_to_dataframe(resps[i], q, vd, pdb)}})

\* df.join(other, how="outer", sort=True) refuses columns of the same name
Overlap(a, b) == Range(a.columns) \cap Range(b.columns) # {}

\* the joins of lines 207-211: df is dfs[0] joined with dfs[1..i-1]; a None
\* in the list has no join method and cannot be joined
RECURSIVE JoinAll(_, _, _)
JoinAll(df, dfs, i) ==
    IF i > Len(dfs) THEN [err |-> "", df |-> df]
    ELSE IF df = None THEN [err |-> "AttributeError", df |-> None]
    ELSE IF dfs[i] = None THEN [err |-> "TypeError", df |-> None]
    ELSE IF Overlap(df[1], dfs[i][1]) THEN [err |-> "ValueError", df |-> None]
    ELSE JoinAll(Some(OuterJoin(df[1], dfs[i][1])), dfs, i + 1)

\* what a filter asks the API for: the parameter group it names, or the
\* whole station, written 0
Asked(filter) ==
    IF "%22parameterGroups%22" \in Range(filter)
    THEN CHOOSE p \in PgIds : ToString(p) = filter[Len(filter) - 2]
    ELSE 0

\* _load, given the order of the parameter groups, the response of the API
\* to each request and the way the user leaves the debugger.  Gives the
\* exception or "", the table assigned to self._dataframe, and the locals.
load(md, kw, q, order, server, pdb, down) ==
    LET w == TimeWindow(md, kw)
        fs == get_filters(md, order)
        resps == [i \in DOMAIN fs |-> server[Asked(fs[i])]]
        joined(f) ==
            IF f.err # "" THEN [err |-> f.err, df |-> None]
            ELSE IF f.dfs = <<>> THEN [err |-> "IndexError", df |-> None]
            ELSE JoinAll(f.dfs[1], f.dfs, 2)
    IN The({The({[err |-> j.err, df |-> j.df, dfs |-> f.dfs, filters |-> fs,
                  urls |-> [i \in 1..f.n |->
                             data_raw_url(fs[i], strftime(w[1]),
                                          strftime(w[2]))],
                  data_raw |-> [i \in 1..f.got |-> resps[i]],
                  breakpoint |-> f.breakpoint] : j \in {joined(f)}}) :
            f \in {FetchAll(resps, q, md.variables_details, pdb, down, 1,
                            [err |-> "", dfs |-> <<>>, n |-> 0, got |-> 0,
                             breakpoint |-> FALSE])}})

-----------------------------------------------------------------------------
(* The cache: _get_schema, the inherited _load_metadata, _get_partition *)

\* self._dataframe is None, even when it is not
Unloaded_always(df) == TRUE

\* self._dataframe is None: lines 303 and 314
Unloaded(df) == df = None

\* base.Schema(...): dtypes and shape of the table, (rows, columns)
Schema(df) == <<Len(df.rows), Len(df.columns)>>

\* what a call that ran no load has of the load's locals
NoLoad ==
    [err |-> "", df |-> None, dfs |-> <<>>, filters |-> <<>>, urls |-> <<>>,
     data_raw |-> <<>>, breakpoint |-> FALSE]

\* _get_schema on a source whose cache is df0; L is what _load does if run.
\* Gives the exception or "", the cache afterwards, the schema returned and
\* the load that was run.
get_schema(df0, L) ==
    LET ran == Unloaded(df0)
        df1 == IF ran /\ L.err = "" THEN L.df ELSE df0
        err == IF ran /\ L.err # "" THEN L.err
               ELSE IF df1 = None THEN "AttributeError" ELSE ""
    IN [err |-> err, dataframe |-> df1,
        shape |-> IF err = "" THEN Some(Schema(df1[1])) ELSE None,
        load |-> IF ran THEN L ELSE NoLoad, ran |-> ran]

\* DataSource._load_metadata of intake, which the source inherits: the
\* schema is taken once and kept in self._schema
load_metadata(sch0, df0, L) ==
    IF sch0 = None
    THEN LET g == get_schema(df0, L)
         IN [err |-> g.err, dataframe |-> g.dataframe,
             schema |-> IF g.err = "" THEN g.shape ELSE sch0,
             load |-> g.load, ran |-> g.ran]
    ELSE [err |-> "", dataframe |-> df0, schema |-> sch0, load |-> NoLoad,
          ran |-> FALSE]

\* _get_partition: the cache, filled through _load_metadata when it is None
get_partition(sch0, df0, L) ==
    IF Unloaded(df0)
    THEN LET m == load_metadata(sch0, df0, L)
         IN [err |-> m.err, dataframe |-> m.dataframe, schema |-> m.schema,
             load |-> m.load, ran |-> m.ran,
             value |-> IF m.err = "" THEN m.dataframe ELSE None]
    ELSE [err |-> "", dataframe |-> df0, schema |-> sch0, load |-> NoLoad,
          ran |-> FALSE, value |-> df0]

-----------------------------------------------------------------------------
(* The inputs: stations, options, feeds and responses *)

\* a station's metadata, its variables given as (parameterGroupId, deviceId)
Station(version, vs) ==
    [version |-> version,
     datasetID |-> Some("u1"),
     internal_id |-> Some("106793"),
     variables_details |->
        [i \in DOMAIN vs |->
            [key |-> VarKeys[i], parameterGroupId |-> vs[i][1],
             deviceId |-> vs[i][2]]],
     minTime |-> "t0", maxTime |-> "t9"]

\* the stations the parser is tried on: what matters to it is which variable
\* a deviceId resolves to (none, one, several)
ParserStations ==
    {Station(2, [i \in DOMAIN devs |-> <<22, devs[i]>>]) :
        devs \in SeqsUpTo(DeviceIds, MaxVars)}

\* the values of the qartod option
QartodOptions ==
    {QBool(FALSE), QBool(TRUE), QInt(1), QStr(1),
     QList(<<>>), QList(<<1>>), QList(<<1, 3>>), QList(<<3, 1>>)}

\* the units of a device's value descriptor: the first device has units
UnitsOf(dev) == IF \A d \in DeviceIds : dev <= d THEN Some("degC") ELSE None

\* the flag after f in the cycle of Flags
NextFlag(f) ==
    IF \E g \in Flags : g > f
    THEN CHOOSE g \in Flags : g > f /\ \A h \in Flags : h > f => g <= h
    ELSE CHOOSE g \in Flags : \A h \in Flags : g <= h

RECURSIVE Rot(_, _)
Rot(f, n) == IF n = 0 THEN f ELSE Rot(NextFlag(f), n - 1)

\* a feed: time at position 0, z (when present) at 1, then the value columns
\* vals (deviceIds), then the QC columns qcs (deviceIds).  Row r is at time
\* t0 + r and has the value 10 r + k in value column k; its flag in QC
\* column k is flags[r] moved k - 1 places along the cycle of Flags.
Feed(hasz, lon, lat, vals, qcs, t0, flags) ==
    LET ni == IF hasz THEN 2 ELSE 1
        nv == Len(vals)
    IN [time |-> [index |-> 0, label |-> "time", units |-> Some("UTC")],
        z |-> IF hasz THEN <<[index |-> 1, label |-> "z", units |-> Some("m")]>>
              ELSE None,
        lon |-> lon, lat |-> lat,
        values |-> [k \in DOMAIN vals |->
                      [index |-> ni + k - 1, deviceId |-> vals[k],
                       units |-> UnitsOf(vals[k])]],
        qcAgg |-> [k \in DOMAIN qcs |->
                      [index |-> ni + nv + k - 1, deviceId |-> qcs[k]]],
        data |-> [r \in DOMAIN flags |->
                    [p \in 0..(ni + nv + Len(qcs) - 1) |->
                        IF p = 0 THEN t0 + r
                        ELSE IF p < ni THEN 0
                        ELSE IF p < ni + nv THEN 10 * r + (p - ni + 1)
                        ELSE Rot(flags[r], p - ni - nv)]]]

Coords == {None, Some(5)}

\* the flags of the rows: every choice when the feed has a QC column
RowFlags(qcs) ==
    IF qcs = <<>>
    THEN {[r \in 1..n |-> 1] : n \in 1..MaxRows}
    ELSE UNION {[1..n -> Flags] : n \in 1..MaxRows}

Feeds(hasz) ==
    {Feed(hasz, lon, lat, vals, qcs, 0, fl) :
        lon \in Coords, lat \in Coords,
        vals \in AscSeqs(DeviceIds) \ {<<>>}, qcs \in AscSeqs(DeviceIds),
        fl \in UNION {RowFlags(q) : q \in AscSeqs(DeviceIds)}}

\* one-row feeds of one value column, for the responses of two feeds
OneColumnFeeds(hasz, lons, offsets, fls) ==
    UNION {{Feed(hasz, lon, None, <<d>>, qcs, t0, <<fl>>) :
                lon \in lons, qcs \in {<<>>, <<d>>}, t0 \in offsets, fl \in fls} :
            d \in DeviceIds}

FirstFeeds(hasz) == OneColumnFeeds(hasz, {None}, {0}, Flags)

SecondFeeds(hasz) == OneColumnFeeds(hasz, Coords, {0, 1}, Flags)

\* the responses: no feed, one feed, or two feeds of one index structure
Responses ==
    {<<>>} \cup UNION {{<<f>> : f \in Feeds(hasz)} : hasz \in BOOLEAN}
           \cup UNION {{<<f, g>> : f \in FirstFeeds(hasz), g \in SecondFeeds(hasz)} :
                          hasz \in BOOLEAN}

\* what a call gave its caller: the exception raised (err) or "", the table
\* returned (df), the schema's shape returned (shape), the list dfs of the
\* function that built the tables, whether the debugger of line 83 stopped
\* the call, and whether the call ran _load
NoCall ==
    [op |-> "", err |-> "", df |-> None, dfs |-> <<>>, breakpoint |-> FALSE,
     loaded |-> FALSE, shape |-> None]

-----------------------------------------------------------------------------
(* The parser alone: one call of _load_to_dataframe on a fetched response *)

InitParser ==
    /\ metadata \in ParserStations
    /\ qartod \in QartodOptions
    /\ kwargs_search = <<>>
    /\ dataframe = None
    /\ schema = None
    /\ filters = <<>>
    /\ data_raw = <<>>
    /\ out = NoCall
    /\ urls = <<>>
    /\ api = <<>>
    /\ set_order = <<>>
    /\ cat = None
    /\ use_units \in BOOLEAN

LoadToDataframe ==
    /\ out = NoCall
    /\ \E feeds \in Responses, pdb \in {"continue", "quit"} :
          LET r == load_to_dataframe(feeds, qartod, metadata.variables_details, pdb)
          IN /\ feeds # <<>> => pdb = "continue"
             /\ data_raw' = <<feeds>>
             /\ out' = [op |-> "_load_to_dataframe", err |-> r.err, df |-> r.df,
                        dfs |-> r.dfs, breakpoint |-> r.breakpoint,
                        loaded |-> FALSE, shape |-> None]
    /\ dataframe' = None
    /\ UNCHANGED <<metadata, qartod, kwargs_search, schema, filters, urls,
                   api, set_order, use_units, cat>>

NextParser == LoadToDataframe

SpecParser == InitParser /\ [][NextParser]_vars

-----------------------------------------------------------------------------
(* What the claims about the parser speak of *)

\* the call of _load_to_dataframe has returned or raised
Parsed == out.op = "_load_to_dataframe"

\* the feeds of the response the parser was given
ParsedFeeds == data_raw[1]

\* the feeds for which the parser built a table, by position
Built == IF Parsed THEN DOMAIN out.dfs ELSE {}

\* the variable key a deviceId resolves to: the first variable carrying it
KeyOfDevice(dev) ==
    LET vd == metadata.variables_details
        i == CHOOSE i \in DOMAIN vd :
                /\ vd[i].deviceId = dev
                /\ \A j \in DOMAIN vd : vd[j].deviceId = dev => i <= j
    IN vd[i].key

\* the name of the data column of value descriptor d
DataName(d) ==
    IF d.units = None THEN <<KeyOfDevice(d.deviceId)>>
    ELSE <<KeyOfDevice(d.deviceId), " [", d.units[1], "]">>

\* the name of the QC column of QC descriptor d
QcName(d) == <<KeyOfDevice(d.deviceId), "_qc_agg">>

IsQcName(name) == Len(name) = 2 /\ name[2] = "_qc_agg"

\* the cell of table df in the row built from row record r of feed, in the
\* one column named name
Cell(df, r, name) ==
    df.rows[r].cells[CHOOSE c \in ColsNamed(df, name) : TRUE]

\* every data cell of the table of feed i holds the value of the row records
DataUntouched(i) ==
    LET feed == ParsedFeeds[i]
        df == out.dfs[i]
    IN \A k \in DOMAIN feed.values : \A r \in DOMAIN feed.data :
          /\ Cardinality(ColsNamed(df, DataName(feed.values[k]))) = 1
          /\ Cell(df, r, DataName(feed.values[k]))
                = Some(feed.data[r][feed.values[k].index])

\* the value descriptor a QC descriptor qualifies
ValueOf(feed, qd) ==
    feed.values[CHOOSE k \in DOMAIN feed.values :
                    feed.values[k].deviceId = qd.deviceId]

\* C1: with a list of accepted flags, the data cell linked to a QC column is
\* missing exactly when the row's QC value is not in the list, and keeps its
\* value when the QC value is any member of the list.
C1_ListMasksExactlyRejected ==
    (Parsed /\ qartod.kind = "list" /\ qartod.flags # <<>>) =>
        \A i \in Built :
            LET feed == ParsedFeeds[i]
            IN \A j \in DOMAIN feed.qcAgg : \A r \in DOMAIN feed.data :
                 LET vdesc == ValueOf(feed, feed.qcAgg[j])
                     flag == feed.data[r][feed.qcAgg[j].index]
                 IN Cell(out.dfs[i], r, DataName(vdesc))
                      = IF flag \in Range(qartod.flags)
                        THEN Some(feed.data[r][vdesc.index])
                        ELSE NA

\* C2: with a single integer flag, every data cell whose aggregate flag is
\* not that value is missing.
C2_IntFlagMasks ==
    (Parsed /\ qartod.kind = "int" /\ qartod.flags[1] \in Flags) =>
        \A i \in Built :
            LET feed == ParsedFeeds[i]
            IN \A j \in DOMAIN feed.qcAgg : \A r \in DOMAIN feed.data :
                 feed.data[r][feed.qcAgg[j].index] # qartod.flags[1]
                    => Cell(out.dfs[i], r, DataName(ValueOf(feed, feed.qcAgg[j]))) = NA

\* C3: with a list of explicit flag values, the table of a feed has no QC column,
\* however many QC descriptors the feed has.
C3_NoQcColumnLeft ==
    (Parsed /\ qartod.kind = "list") =>
        \A i \in Built : \A c \in DOMAIN out.dfs[i].columns :
            ~IsQcName(out.dfs[i].columns[c])

\* C4: with qartod = True, the table of a feed has for every QC descriptor
\* one column "<variable key>_qc_agg" holding the QC values of the row
\* records, and every data cell keeps its value.
C4_TrueKeepsQcColumns ==
    (Parsed /\ qartod = QBool(TRUE)) =>
        \A i \in Built :
            LET feed == ParsedFeeds[i]
                df == out.dfs[i]
            IN /\ \A j \in DOMAIN feed.qcAgg :
                    /\ Cardinality(ColsNamed(df, QcName(feed.qcAgg[j]))) = 1
                    /\ \A r \in DOMAIN feed.data :
                          Cell(df, r, QcName(feed.qcAgg[j]))
                            = Some(feed.data[r][feed.qcAgg[j].index])
               /\ DataUntouched(i)
               /\ Len(df.columns) = Len(feed.values) + Len(feed.qcAgg)

C4_Witness ==
    /\ Parsed /\ qartod = QBool(TRUE) /\ out.err = ""
    /\ \E i \in Built : Len(ParsedFeeds[i].qcAgg) = 2 /\ Len(ParsedFeeds[i].data) = 2

\* C5: with qartod = False, the table of a feed has no QC column and every
\* data cell holds the value of the row records, whatever QC descriptors and
\* QC values the feed carries; the QC descriptors are not even looked at.
C5_FalseOmitsQc ==
    (Parsed /\ qartod = QBool(FALSE)) =>
        /\ \A i \in Built :
              /\ \A c \in DOMAIN out.dfs[i].columns : ~IsQcName(out.dfs[i].columns[c])
              /\ Len(out.dfs[i].columns) = Len(ParsedFeeds[i].values)
              /\ DataUntouched(i)
        /\ (/\ \A i \in DOMAIN ParsedFeeds :
                 /\ ParsedFeeds[i].lon = None /\ ParsedFeeds[i].lat = None
                 /\ \A k \in DOMAIN ParsedFeeds[i].values :
                       \E v \in Range(metadata.variables_details) :
                          v.deviceId = ParsedFeeds[i].values[k].deviceId
            /\ ParsedFeeds # <<>>)
              => out.err = "" /\ Len(out.dfs) = Len(ParsedFeeds)

C5_Witness ==
    /\ Parsed /\ qartod = QBool(FALSE) /\ out.err = ""
    /\ \E i \in Built : Len(ParsedFeeds[i].qcAgg) = 2 /\ Len(ParsedFeeds[i].data) = 2

\* C6: a feed with a non-null lon or a non-null lat gets no table, the
\* response gives no table, and the parser raises ValueError when it comes
\* to that feed.
C6_HorizontalRejected ==
    Parsed =>
        \A i \in DOMAIN ParsedFeeds :
            (ParsedFeeds[i].lon # None \/ ParsedFeeds[i].lat # None) =>
                /\ out.df = None
                /\ out.err # ""
                /\ Len(out.dfs) < i
                /\ Len(out.dfs) = i - 1 => out.err = "ValueError"

C6_Witness ==
    /\ Parsed /\ out.err = "ValueError"
    /\ \E i \in DOMAIN ParsedFeeds :
          /\ ParsedFeeds[i].lon = None /\ ParsedFeeds[i].lat # None
          /\ Len(out.dfs) = i - 1

-----------------------------------------------------------------------------
(* The source: schema requests, reads and close on one AXDSSensorSource *)

\* the stations a source is made for: variable i is measured by device 100 + i
\* a source made with neither the dataset id nor the internal id
Unidentified(st) == [st EXCEPT !.datasetID = None, !.internal_id = None]

SourceStations ==
    {Station(v, [i \in DOMAIN pgs |-> <<pgs[i], 100 + i>>]) :
        v \in {1, 2}, pgs \in SeqsUpTo(PgIds, MaxVars)}
    \cup {Unidentified(Station(v, <<<<22, 101>>>>)) : v \in {1, 2}}

SourceQartod == {QBool(FALSE), QList(<<1>>)}

\* kwargs_search: no time, a start alone, a start and an end
SourceKwargs ==
    {<<>>, [min_time |-> "2021-1-1"],
     [min_time |-> "2021-1-1", max_time |-> "2021-1-2"]}

\* what the sensor API answers to one request: no feed, a feed with a
\* latitude, three good feeds of one value column, and two feeds of one
\* device
LoadResponses ==
    {<<>>,
     <<Feed(FALSE, None, Some(5), <<101>>, <<>>, 0, <<1>>)>>,
     <<Feed(FALSE, None, None, <<101>>, <<101>>, 0, <<4>>)>>,
     <<Feed(FALSE, None, None, <<101>>, <<>>, 1, <<1>>)>>,
     <<Feed(FALSE, None, None, <<102>>, <<102>>, 1, <<1>>)>>,
     <<Feed(FALSE, None, None, <<101>>, <<>>, 0, <<1>>),
       Feed(FALSE, None, None, <<101>>, <<>>, 1, <<1>>)>>}

\* what the requests of a station ask for: each of its parameter groups
\* (version 1) or the whole station, written 0
Requested(md) == IF md.version = 1 THEN PgidSet(md) ELSE {0}

\* _load on the source as it is, the user leaving the debugger by pdb
Load(pdb, down) ==
    load(metadata, kwargs_search, qartod, set_order, api, pdb, down)

\* the request of a load on which requests.get raises: one of its requests,
\* or none, written 0
Downs == 0..Len(get_filters(metadata, set_order))

\* how the user may leave the debugger: it only matters when a response of
\* the API has no feed
PdbCommands ==
    IF <<>> \in Range(api) THEN {"continue", "quit"} ELSE {"continue"}

Init ==
    /\ metadata \in SourceStations
    /\ qartod \in SourceQartod
    /\ kwargs_search \in SourceKwargs
    /\ api \in [Requested(metadata) -> LoadResponses]
    /\ set_order \in Orders(PgidSet(metadata))
    /\ cat = None
    /\ use_units \in BOOLEAN
    /\ dataframe = None
    /\ schema = None
    /\ filters = <<>>
    /\ data_raw = <<>>
    /\ urls = <<>>
    /\ out = NoCall

\* what a call leaves of the load it ran, if it ran one
Ran(L, ran) ==
    /\ filters' = IF ran THEN L.filters ELSE filters
    /\ data_raw' = L.data_raw
    /\ urls' = L.urls
    /\ UNCHANGED <<metadata, qartod, use_units, kwargs_search, api, set_order,
                   cat>>

\* source._get_schema()
GetSchema ==
    \E pdb \in PdbCommands : \E down \in Downs : \E L \in {Load(pdb, down)} :
      \E g \in {get_schema(dataframe, L)} :
           /\ dataframe' = g.dataframe
           /\ schema' = schema
           /\ out' = [op |-> "_get_schema", err |-> g.err, df |-> None,
                      dfs |-> g.load.dfs, breakpoint |-> g.load.breakpoint,
                      loaded |-> g.ran, shape |-> g.shape]
           /\ Ran(g.load, g.ran)

\* source.discover(): the schema through the inherited _load_metadata
Discover ==
    \E pdb \in PdbCommands : \E down \in Downs : \E L \in {Load(pdb, down)} :
      \E m \in {load_metadata(schema, dataframe, L)} :
           /\ dataframe' = m.dataframe
           /\ schema' = m.schema
           /\ out' = [op |-> "discover", err |-> m.err, df |-> None,
                      dfs |-> m.load.dfs, breakpoint |-> m.load.breakpoint,
                      loaded |-> m.ran,
                      shape |-> IF m.err = "" THEN m.schema ELSE None]
           /\ Ran(m.load, m.ran)

\* source.read()
Read ==
    \E pdb \in PdbCommands : \E down \in Downs : \E L \in {Load(pdb, down)} :
      \E r \in {get_partition(schema, dataframe, L)} :
           /\ dataframe' = r.dataframe
           /\ schema' = r.schema
           /\ out' = [op |-> "read", err |-> r.err, df |-> r.value,
                      dfs |-> r.load.dfs, breakpoint |-> r.load.breakpoint,
                      loaded |-> r.ran, shape |-> None]
           /\ Ran(r.load, r.ran)

\* source.close(): _close
Close ==
    /\ dataframe' = None
    /\ out' = [NoCall EXCEPT !.op = "close"]
    /\ data_raw' = <<>>
    /\ urls' = <<>>
    /\ UNCHANGED <<metadata, qartod, use_units, kwargs_search, api, set_order,
                   cat, schema, filters>>

Next == GetSchema \/ Discover \/ Read \/ Close

Spec == Init /\ [][Next]_vars

-----------------------------------------------------------------------------
(* The filters, the cache and the empty response *)

\* a call has run a load
Loaded == out.loaded

\* the parameter group a version-1 filter names
GroupOf(filter) == filter[11]

\* C7: a load on a station of version 1 builds exactly one filter per
\* distinct parameterGroupId of its variables, each naming its own group; on
\* a station of any other version it builds exactly one filter.
C7_OneFilterPerGroup ==
    Loaded =>
        IF metadata.version = 1
        THEN /\ Len(filters) = Cardinality(PgidSet(metadata))
             /\ \A p \in PgidSet(metadata) :
                    \E i \in DOMAIN filters : GroupOf(filters[i]) = ToString(p)
        ELSE Len(filters) = 1

\* a load has run on a version-1 station whose two variables share a group
C7_Witness ==
    /\ Loaded
    /\ metadata.version = 1
    /\ Len(metadata.variables_details) = 2
    /\ Cardinality(PgidSet(metadata)) = 1
    /\ Len(filters) = 1

\* C8: once the table is loaded, every read and every schema request leaves
\* the cache as it is, requests nothing from the API and does not fail; a
\* read returns the cached table and _get_schema its shape.
C8_CachedAfterLoad ==
    [][(dataframe # None /\ out'.op \in {"read", "discover", "_get_schema"})
        => /\ dataframe' = dataframe
           /\ urls' = <<>>
           /\ ~out'.loaded
           /\ out'.err = ""
           /\ (out'.op = "read" => out'.df = dataframe)
           /\ (out'.op = "_get_schema"
                  => out'.shape = Some(Schema(dataframe[1])))]_vars

\* a read answered from the cache
C8_Witness ==
    /\ dataframe # None
    /\ out.op = "read"
    /\ ~out.loaded
    /\ out.df = dataframe

\* C9: the read that follows a close runs a load again and, unless the load
\* fails, returns a table.
C9_ReadAfterCloseReloads ==
    [][(out.op = "close" /\ out'.op = "read")
        => /\ out'.loaded
           /\ (out'.err = "" => out'.df # None)]_vars

\* C10: a load that got a response of zero feeds stops at no breakpoint and
\* does not end in the error of a missing table.
C10_ZeroFeedsExplicit ==
    (Loaded /\ <<>> \in Range(data_raw))
        => /\ ~out.breakpoint
           /\ out.err \notin {"AttributeError", "TypeError", "BdbQuit"}

\* C18: a call on a source that was given neither the dataset id nor the
\* internal id fails on entry, before any request to the API.
C18_MissingIdsRejected ==
    (/\ out.op \in {"read", "discover", "_get_schema"}
     /\ metadata.datasetID = None /\ metadata.internal_id = None)
        => out.err # "" /\ urls = <<>> /\ data_raw = <<>>

-----------------------------------------------------------------------------
(* The joined table of a station of version 1 *)

\* the one feed of response i of the last load
FeedOf(i) == data_raw[i][1]

\* the row records of a feed at time t
RowsAt(feed, t) == {r \in DOMAIN feed.data : feed.data[r][0] = t}

\* a load of a version-1 station with QC off has had one good feed from each
\* of its two or more filters, all with the time index alone and no two with
\* a variable in common
OneFeedPerFilter ==
    /\ Loaded
    /\ metadata.version = 1
    /\ qartod = QBool(FALSE)
    /\ Len(filters) >= 2
    /\ Len(data_raw) = Len(filters)
    /\ \A i \in DOMAIN data_raw :
          /\ Len(data_raw[i]) = 1
          /\ FeedOf(i).z = None /\ FeedOf(i).lon = None /\ FeedOf(i).lat = None
          /\ \A k \in DOMAIN FeedOf(i).values :
                \E v \in Range(metadata.variables_details) :
                    v.deviceId = FeedOf(i).values[k].deviceId
    /\ \A i \in DOMAIN data_raw : \A j \in DOMAIN data_raw :
          i # j => \A k \in DOMAIN FeedOf(i).values :
                      \A l \in DOMAIN FeedOf(j).values :
                          FeedOf(i).values[k].deviceId
                              # FeedOf(j).values[l].deviceId

\* C11: the table of such a load has the time index alone, one row per
\* distinct timestamp of the feeds, in order, the data columns of all the
\* feeds and no QC column; a cell holds the value of its feed at the row's
\* time and is missing exactly where its feed has no row at that time.
C11_OuterJoinOfFeeds ==
    OneFeedPerFilter =>
        /\ out.err = ""
        /\ dataframe # None
        /\ LET T == dataframe[1]
               times == UNION {{FeedOf(i).data[r][0] : r \in DOMAIN FeedOf(i).data} :
                                  i \in DOMAIN data_raw}
           IN /\ T.index_names = <<make_label("time", Some("UTC"))>>
              /\ Keys(T) = {<<t>> : t \in times}
              /\ Len(T.rows) = Cardinality(times)
              /\ \A a \in DOMAIN T.rows : \A b \in DOMAIN T.rows :
                    a < b => T.rows[a].key[1] < T.rows[b].key[1]
              /\ Range(T.columns)
                    = UNION {{DataName(FeedOf(i).values[k]) :
                                 k \in DOMAIN FeedOf(i).values} :
                             i \in DOMAIN data_raw}
              /\ \A c \in DOMAIN T.columns :
                    /\ ~IsQcName(T.columns[c])
                    /\ Cardinality(ColsNamed(T, T.columns[c])) = 1
              /\ \A i \in DOMAIN data_raw : \A k \in DOMAIN FeedOf(i).values :
                    \A a \in DOMAIN T.rows :
                       LET cell == Cell(T, a, DataName(FeedOf(i).values[k]))
                           rs == RowsAt(FeedOf(i), T.rows[a].key[1])
                       IN IF rs = {} THEN cell = NA
                          ELSE \E r \in rs :
                                 cell = Some(FeedOf(i).data[r]
                                                [FeedOf(i).values[k].index])

\* two feeds at different times were joined: two rows, each with a missing cell
C11_Witness ==
    /\ OneFeedPerFilter
    /\ out.err = ""
    /\ Len(dataframe[1].rows) = 2
    /\ Len(dataframe[1].columns) = 2
    /\ \A a \in DOMAIN dataframe[1].rows : NA \in Range(dataframe[1].rows[a].cells)

-----------------------------------------------------------------------------
(* The resolution of a deviceId *)

\* the variables of the station that carry deviceId dev
Matches(dev) ==
    {j \in DOMAIN metadata.variables_details :
        metadata.variables_details[j].deviceId = dev}

\* C20: when the deviceId of a value descriptor, or of a QC descriptor that
\* is read, matches no variable of the station or more than one, the parse
\* fails: it never picks one of several matches.
C20_DeviceIdResolvesToOne ==
    (/\ Parsed
     /\ \E i \in DOMAIN ParsedFeeds :
           \/ \E k \in DOMAIN ParsedFeeds[i].values :
                 Cardinality(Matches(ParsedFeeds[i].values[k].deviceId)) # 1
           \/ /\ ReadsQc(qartod)
              /\ \E k \in DOMAIN ParsedFeeds[i].qcAgg :
                    Cardinality(Matches(ParsedFeeds[i].qcAgg[k].deviceId)) # 1)
        => out.err # ""

-----------------------------------------------------------------------------
(* Column names and the use_units option *)

\* C12: every index name and every data column name of the table of a feed
\* is the label of utils.make_label under the catalog's use_units option:
\* "<label> [<units>]" with units and use_units, "<label>" otherwise.
C12_NamesFollowUseUnits ==
    \A i \in Built :
        LET feed == ParsedFeeds[i]
            ds == IndexDescs(feed)
        IN /\ out.dfs[i].index_names
                = [j \in DOMAIN ds |->
                     utils_make_label(ds[j].label, ds[j].units, use_units)]
           /\ \A k \in DOMAIN feed.values :
                 \E c \in DOMAIN out.dfs[i].columns :
                    out.dfs[i].columns[c]
                       = utils_make_label(KeyOfDevice(feed.values[k].deviceId),
                                          feed.values[k].units, use_units)

-----------------------------------------------------------------------------
(* utils.py: make_filter and make_data_url *)

\* make_filter of utils.py; parameterGroupId is None or Some(pgid).  The
\* token is the sequence of the URL-encoded pieces of the string.
make_filter(internal_id, parameterGroupId) ==
    LET filter == <<"%7B", "%22stations%22", ":", "%5B", "%22",
                    ToString(internal_id), "%22", "%5D", "%7D">>
    IN IF parameterGroupId # None
       THEN filter \o <<"%2C", "%22parameterGroups%22", "%3A", "%5B",
                        ToString(parameterGroupId[1]), "%5D", "%7D">>
       ELSE filter

\* make_data_url of utils.py
make_data_url(filter, start_time, end_time, binned, bin_interval) ==
    LET start_date == strftime(start_time)
        end_date == strftime(end_time)
    IN IF binned
       THEN <<baseurl, "/observations/filter/custom/binned?filter=">> \o filter
               \o <<"&start=", start_date, "Z", "&end=", end_date, "Z",
                    "&binInterval=", bin_interval>>
       ELSE <<baseurl, "/observations/filter/custom?filter=">> \o filter
               \o <<"&start=", start_date, "Z", "&end=", end_date, "Z">>

\* the instant pd.Timestamp(t) stands for, in days of the model's calendar
Timestamp(t) ==
    CASE t = "2019-03-15T02:58:51.000Z" -> 0
      [] t = "2021-1-1" -> 1
      [] t = "2021-1-2" -> 2
      [] t = "2023-01-01T00:00:00.000Z" -> 3

\* the arguments the functions are called with
StationIds == {106793, 7}
UtilTimes == {"2019-03-15T02:58:51.000Z", "2021-1-1", "2021-1-2"}
BinIntervals == {"None", "hourly"}

InitUtils ==
    /\ metadata = None
    /\ qartod = QBool(FALSE)
    /\ use_units = TRUE
    /\ kwargs_search = <<>>
    /\ dataframe = None
    /\ schema = None
    /\ filters = <<>>
    /\ data_raw = <<>>
    /\ urls = <<>>
    /\ api = <<>>
    /\ set_order = <<>>
    /\ cat = None
    /\ out = NoCall

\* make_filter(internal_id) or make_filter(internal_id, parameterGroupId)
MakeFilter ==
    /\ out = NoCall
    /\ \E id \in StationIds : \E pg \in {None} \cup {Some(p) : p \in PgIds} :
          out' = [op |-> "make_filter", err |-> "",
                  internal_id |-> id, parameterGroupId |-> pg,
                  value |-> make_filter(id, pg)]
    /\ UNCHANGED <<metadata, qartod, use_units, kwargs_search, dataframe,
                   schema, filters, data_raw, urls, api, set_order, cat>>

\* make_data_url on the filter make_filter returned
MakeDataUrl ==
    /\ out.op = "make_filter"
    /\ \E start_time \in UtilTimes : \E end_time \in UtilTimes :
       \E binned \in BOOLEAN : \E bin_interval \in BinIntervals :
          out' = [op |-> "make_data_url", err |-> "",
                  filter |-> out.value, start_time |-> start_time,
                  end_time |-> end_time, binned |-> binned,
                  bin_interval |-> bin_interval,
                  value |-> make_data_url(out.value, start_time, end_time,
                                          binned, bin_interval)]
    /\ UNCHANGED <<metadata, qartod, use_units, kwargs_search, dataframe,
                   schema, filters, data_raw, urls, api, set_order, cat>>

NextUtils == MakeFilter \/ MakeDataUrl

SpecUtils == InitUtils /\ [][NextUtils]_vars

\* the characters a URL-encoded piece stands for: urllib.parse.unquote
unquote(piece) ==
    CASE piece = "%7B" -> "{"
      [] piece = "%7D" -> "}"
      [] piece = "%5B" -> "["
      [] piece = "%5D" -> "]"
      [] piece = "%3A" -> ":"
      [] piece = "%2C" -> ","
      [] piece = "%22" -> "\""
      [] piece = "%22stations%22" -> "\"stations\""
      [] piece = "%22parameterGroups%22" -> "\"parameterGroups\""
      [] OTHER -> piece

\* the JSON texts of the object {"stations": [id]}, with parameterGroups
\* when pg is given; the station id may be written as a number or a string
StationsObjects(id, pg) ==
    {<<"{", "\"stations\"", ":", "[">> \o idtext \o <<"]">>
        \o (IF pg = None THEN <<>>
            ELSE <<",", "\"parameterGroups\"", ":", "[", ToString(pg[1]), "]">>)
        \o <<"}">> :
     idtext \in {<<ToString(id)>>, <<"\"", ToString(id), "\"">>}}

\* C13: the token of make_filter decodes to the one JSON object
\* {"stations": [id]} or {"stations": [id], "parameterGroups": [pgid]}: its
\* closing brace comes once, as the last piece.
C13_FilterIsOneObject ==
    out.op = "make_filter" =>
        /\ [i \in DOMAIN out.value |-> unquote(out.value[i])]
              \in StationsObjects(out.internal_id, out.parameterGroupId)
        /\ \A i \in DOMAIN out.value :
              out.value[i] = "%7D" <=> i = Len(out.value)

\* C19: make_data_url with a start time later than the end time fails and
\* returns no URL.
C19_StartAfterEndFails ==
    (out.op = "make_data_url"
        /\ Timestamp(out.start_time) > Timestamp(out.end_time))
        => out.err # "" /\ out.value = None

-----------------------------------------------------------------------------
(* The catalog: AXDSCatalog.__init__ *)

allowed_datatypes == {"platform2", "sensor_station"}

\* the keys of the checks of line 175
BoxKeys == {"min_lon", "max_lon", "min_lat", "max_lat"}
TimeKeys == {"min_time", "max_time"}

\* dict d with d[k] = v assigned
SetItem(d, k, v) == [x \in DOMAIN d \cup {k} |-> IF x = k THEN v ELSE d[x]]

\* some but not all of the keys of check are in the dict
AnyNotAll(kw, check) ==
    (\E k \in check : k \in DOMAIN kw) /\ ~(\A k \in check : k \in DOMAIN kw)

\* the checks without the one on the times
ChecksFail_boxonly(kw) == AnyNotAll(kw, BoxKeys)

\* the loop over checks of lines 179-185 raises
ChecksFail(kw) == AnyNotAll(kw, BoxKeys) \/ AnyNotAll(kw, TimeKeys)

Abs(x) == IF x < 0 THEN -x ELSE x

\* the longitudes of lines 187-195 are out of range
LonOutOfRange(kw) ==
    /\ "min_lon" \in DOMAIN kw /\ "max_lon" \in DOMAIN kw
    /\ (Abs(kw["min_lon"]) > 180 \/ Abs(kw["max_lon"]) > 180)

\* self.kwargs_search after lines 132-170: bbox, start_time and end_time
\* written over what kwargs_search holds
MergedKwargs(kw, bbox, start_time, end_time) ==
    LET a == IF bbox = None THEN kw
             ELSE SetItem(SetItem(SetItem(SetItem(kw, "min_lon", bbox[1][1]),
                                          "min_lat", bbox[1][2]),
                                  "max_lon", bbox[1][3]),
                          "max_lat", bbox[1][4])
        b == IF start_time = None THEN a ELSE SetItem(a, "min_time", start_time[1])
    IN IF end_time = None THEN b ELSE SetItem(b, "max_time", end_time[1])

\* AXDSCatalog.__init__ up to the call of Catalog.__init__: the exception
\* raised or "", and the catalog object.  keys_to_match and standard_names
\* are None or the parameter group labels they match.
catalog_init(datatype, keys_to_match, standard_names, bbox, start_time, end_time, kw, q, use) ==
    LET fail(e) == [err |-> e, cat |-> None]
    IN IF datatype \notin allowed_datatypes THEN fail("KeyError")
       ELSE IF bbox # None /\ Len(bbox[1]) # 4 THEN fail("ValueError")
       ELSE The({
          IF ChecksFail(m) THEN fail("ValueError")
          ELSE IF LonOutOfRange(m) THEN fail("ValueError")
          ELSE IF keys_to_match # None /\ standard_names # None
          THEN fail("ValueError")
          ELSE [err |-> "",
                cat |-> Some([datatype |-> datatype, kwargs_search |-> m,
                              qartod |-> q, use_units |-> use,
                              pglabels |-> IF keys_to_match # None
                                           THEN keys_to_match
                                           ELSE standard_names,
                              metadata |-> [kwargs_search |-> m,
                                            pglabels |-> IF keys_to_match # None
                                                         THEN keys_to_match
                                                         ELSE standard_names],
                              loaded |-> FALSE,
                              entries |-> <<>>])] :
          m \in {MergedKwargs(kw, bbox, start_time, end_time)}})

-----------------------------------------------------------------------------
(* The catalog: search_url, get_search_urls, _load_all_results, _load *)

page_size == 10

\* seconds since 1970 of pd.Timestamp(t), for the times of the model
Epoch(t) ==
    CASE t = "2021-1-1" -> 1609459200
      [] t = "2021-1-2" -> 1609545600

\* search_url: the pieces of the URL
search_url(c, pglabel) ==
    LET kw == c.kwargs_search
    IN <<"https://search.axds.co/v2/search?portalId=-1&page=1&pageSize=",
         ToString(page_size), "&verbose=true", "&type=", c.datatype>>
       \o (IF BoxKeys \subseteq DOMAIN kw
           THEN <<"&geom={\"type\":\"Polygon\",\"coordinates\":">>
                \o [i \in 1..10 |->
                      ToString(kw[<<"min_lon", "min_lat", "max_lon", "min_lat",
                                    "max_lon", "max_lat", "min_lon", "max_lat",
                                    "min_lon", "min_lat">>[i]])]
                \o <<"}">>
           ELSE <<>>)
       \o (IF TimeKeys \subseteq DOMAIN kw
           THEN <<"&startDateTime=", ToString(Epoch(kw["min_time"])),
                  "&endDateTime=", ToString(Epoch(kw["max_time"]))>>
           ELSE <<>>)
       \o (IF "search_for" \in DOMAIN kw
           THEN <<"&query=", kw["search_for"]>> ELSE <<>>)
       \o (IF pglabel # None
           THEN <<"&tag=Parameter+Group:", pglabel[1]>> ELSE <<>>)

\* get_search_urls: one URL per parameter group label, or the one URL
get_search_urls(c) ==
    IF c.pglabels # None
    THEN [i \in DOMAIN c.pglabels[1] |-> search_url(c, Some(c.pglabels[1][i]))]
    ELSE <<search_url(c, None)>>

\* _load_all_results passing over a response without results
RECURSIVE load_all_results_skip(_, _, _)
load_all_results_skip(resps, i, all_results) ==
    IF i > Len(resps)
    THEN [err |-> "", results |-> all_results, n |-> Len(resps)]
    ELSE load_all_results_skip(resps, i + 1,
             all_results \o (IF resps[i] = None THEN <<>> ELSE resps[i][1]))

\* _load_all_results from search URL i on; resps[i] is None when the
\* response to URL i has no "results" key, else Some(its results).  Gives
\* the exception or "", the results gathered and the number of requests.
RECURSIVE load_all_results(_, _, _)
load_all_results(resps, i, all_results) ==
    IF i > Len(resps)
    THEN [err |-> "", results |-> all_results, n |-> Len(resps)]
    ELSE IF resps[i] = None
    THEN [err |-> "ValueError", results |-> <<>>, n |-> i]
    ELSE load_all_results(resps, i + 1, all_results \o resps[i][1])

\* AXDSCatalog._load_metadata: the metadata of the entry of one result
cat_load_metadata(datatype, result) ==
    LET common == [datasetID |-> result.uuid, title |-> result.label,
                   type |-> datatype]
    IN IF datatype = "platform2"
       THEN [x \in DOMAIN common \cup {"variables"} |->
               IF x = "variables" THEN result.variables ELSE common[x]]
       ELSE [x \in DOMAIN common
                    \cup {"variables", "internal_id", "variables_details",
                          "version"} |->
               CASE x = "variables" -> result.variables
                 [] x = "internal_id" -> result.id
                 [] x = "version" -> result.version
                 [] x = "variables_details" ->
                        [i \in DOMAIN result.variables |->
                           [key |-> result.variables[i],
                            parameterGroupId |-> 22, deviceId |-> 100 + i]]
                 [] OTHER -> common[x]]

\* the names of the entries, in the order of the dict
EntryNames(entries) == [i \in DOMAIN entries |-> entries[i].name]

\* the LocalCatalogEntry of lines 480-573 for one result
make_entry(c, result, md) ==
    LET sensor == c.datatype = "sensor_station"
    IN [name |-> result.uuid,
        description |-> <<"AXDS dataset_id ", result.uuid, " of datatype ",
                          c.datatype>>,
        driver |-> IF sensor THEN "AXDSSensorSource"
                   ELSE IF result.parquet THEN "ParquetSource"
                   ELSE "CSVSource",
        args |-> IF sensor
                 THEN [dataset_id |-> result.uuid,
                       internal_id |-> md.internal_id,
                       kwargs_search |-> c.kwargs_search,
                       qartod |-> c.qartod,
                       use_units |-> c.use_units]
                 ELSE [urlpath |-> <<result.uuid,
                                     IF result.parquet THEN ".parquet"
                                     ELSE ".csv.gz">>],
        metadata |-> md]

\* the loop over the results without the test of line 444
RECURSIVE make_entries_all(_, _, _)
make_entries_all(c, results, entries) ==
    IF results = <<>> THEN entries
    ELSE LET md == cat_load_metadata(c.datatype, Head(results))
         IN IF "webcam" \in Range(md.variables)
            THEN make_entries_all(c, Tail(results), entries)
            ELSE make_entries_all(c, Tail(results),
                                  entries \o <<make_entry(c, Head(results), md)>>)

\* the loop of _load over the results: the entries, in the order of the dict
RECURSIVE make_entries(_, _, _)
make_entries(c, results, entries) ==
    IF results = <<>> THEN entries
    ELSE LET md == cat_load_metadata(c.datatype, Head(results))
         IN IF Head(results).uuid \in Range(EntryNames(entries))
            THEN make_entries(c, Tail(results), entries)
            ELSE IF "webcam" \in Range(md.variables)
            THEN make_entries(c, Tail(results), entries)
            ELSE make_entries(c, Tail(results),
                              entries \o <<make_entry(c, Head(results), md)>>)

\* AXDSCatalog._load: the exception or "", the catalog afterwards and the
\* number of search requests issued
cat_load(c, resps) ==
    The({IF r.err # "" THEN [err |-> r.err, cat |-> c, n |-> r.n]
         ELSE [err |-> "",
               cat |-> [c EXCEPT !.loaded = TRUE,
                                 !.entries = make_entries(c, r.results, <<>>)],
               n |-> r.n] :
         r \in {load_all_results(resps, 1, <<>>)}})

-----------------------------------------------------------------------------
(* The catalog: construction and load *)

\* search results of one response, at most
MaxResults == 2

\* the kwargs_search a catalog is made with: nothing, a box, a box without
\* min_lat and a time range, a box and max_time alone, a time range
CatKwargs ==
    {<<>>,
     [min_lon |-> -180, max_lon |-> -156, min_lat |-> 50, max_lat |-> 66],
     [min_lon |-> -180, max_lon |-> -156, max_lat |-> 66,
      min_time |-> "2021-1-1", max_time |-> "2021-1-2"],
     [min_lon |-> -180, max_lon |-> -156, min_lat |-> 50, max_lat |-> 66,
      max_time |-> "2021-1-2"],
     [min_lon |-> -190, max_lon |-> -156, min_lat |-> 50, max_lat |-> 66],
     [min_time |-> "2021-1-1", max_time |-> "2021-1-2"]}

CatBboxes == {None, Some(<<-170, 50, -160, 60>>), Some(<<-170, 50, -160>>)}
CatStartTimes == {None, Some("2021-1-1")}
CatEndTimes == {None, Some("2021-1-2")}
CatDatatypes == {"platform2", "sensor_station", "module"}
CatKeysToMatch == {None, Some(<<"Winds: Gusts">>),
                   Some(<<"Winds: Gusts", "Salinity">>)}
CatStandardNames == {None, Some(<<"Salinity">>)}

\* the search results the server may return: two datasets, the first seen
\* with two labels, each also as a webcam
SearchResults ==
    {[uuid |-> "u1", label |-> "a", variables |-> <<"temp">>,
      parquet |-> FALSE, id |-> 106793, version |-> 2],
     [uuid |-> "u1", label |-> "b", variables |-> <<"temp", "salt">>,
      parquet |-> TRUE, id |-> 106793, version |-> 2],
     [uuid |-> "u1", label |-> "a", variables |-> <<"webcam">>,
      parquet |-> FALSE, id |-> 106793, version |-> 2],
     [uuid |-> "u2", label |-> "a", variables |-> <<"temp">>,
      parquet |-> TRUE, id |-> 7, version |-> 1],
     [uuid |-> "u2", label |-> "a", variables |-> <<"webcam">>,
      parquet |-> FALSE, id |-> 7, version |-> 1]}

\* the responses to a search URL: no "results" key, or some results
SearchResponses ==
    {None} \cup {Some(rs) : rs \in SeqsUpTo(SearchResults, MaxResults)}

\* the search options the caller gave, through any argument
GivenKeys(kw, bbox, start_time, end_time) ==
    DOMAIN kw \cup (IF bbox = None THEN {} ELSE BoxKeys)
              \cup (IF start_time = None THEN {} ELSE {"min_time"})
              \cup (IF end_time = None THEN {} ELSE {"max_time"})

InitCat ==
    /\ metadata = None
    /\ qartod \in SourceQartod
    /\ use_units = TRUE
    /\ kwargs_search = <<>>
    /\ dataframe = None
    /\ schema = None
    /\ filters = <<>>
    /\ data_raw = <<>>
    /\ urls = <<>>
    /\ api = <<>>
    /\ set_order = <<>>
    /\ cat = None
    /\ out = NoCall

\* AXDSCatalog(datatype, keys_to_match, standard_names, bbox, start_time,
\*             end_time, kwargs_search=kw, qartod, use_units)
Construct ==
    /\ out = NoCall
    /\ \E datatype \in CatDatatypes : \E kw \in CatKwargs :
       \E bbox \in CatBboxes : \E start_time \in CatStartTimes :
       \E end_time \in CatEndTimes : \E keys_to_match \in CatKeysToMatch :
       \E standard_names \in CatStandardNames :
       \E r \in {catalog_init(datatype, keys_to_match, standard_names, bbox,
                              start_time, end_time, kw, qartod, use_units)} :
          /\ cat' = r.cat
          /\ out' = [op |-> "AXDSCatalog", err |-> r.err,
                     datatype |-> datatype,
                     given |-> GivenKeys(kw, bbox, start_time, end_time)]
    /\ urls' = <<>>
    /\ UNCHANGED <<metadata, qartod, use_units, kwargs_search, dataframe,
                   schema, filters, data_raw, api, set_order>>

\* the catalog's _load, as intake runs it on the new catalog
CatLoad ==
    /\ cat # None
    /\ ~cat[1].loaded
    /\ out.op = "AXDSCatalog"
    /\ \E resps \in [DOMAIN get_search_urls(cat[1]) -> SearchResponses] :
       \E r \in {cat_load(cat[1], resps)} :
          /\ cat' = Some(r.cat)
          /\ out' = [op |-> "_load", err |-> r.err]
          /\ urls' = SubSeq(get_search_urls(cat[1]), 1, r.n)
          /\ data_raw' = SubSeq(resps, 1, r.n)
    /\ UNCHANGED <<metadata, qartod, use_units, kwargs_search, dataframe,
                   schema, filters, api, set_order>>

\* AXDSSensorSource(**args): __init__(self, dataset_id, kwargs_search,
\* internal_id, metadata={}) rejects a keyword it does not declare and a
\* missing positional argument with TypeError
source_init(args) ==
    IF /\ DOMAIN args \subseteq {"dataset_id", "kwargs_search", "internal_id",
                                 "metadata"}
       /\ {"dataset_id", "kwargs_search", "internal_id"} \subseteq DOMAIN args
    THEN [err |-> "", source |-> Some([dataset_id |-> args.dataset_id,
                                       kwargs_search |-> args.kwargs_search,
                                       internal_id |-> args.internal_id])]
    ELSE [err |-> "TypeError", source |-> None]

\* qartod = self.cat.metadata["qartod"], on a source of catalog c
read_qartod(c) ==
    IF "qartod" \in DOMAIN c.metadata
    THEN [err |-> "", qartod |-> Some(c.metadata.qartod)]
    ELSE [err |-> "KeyError", qartod |-> None]

\* the source of an entry is made from the entry's args and, for a sensor
\* station, its parser then reads the QC option
open_entry(c, entry) ==
    IF entry.driver # "AXDSSensorSource" THEN [err |-> "", qartod |-> None]
    ELSE The({IF s.err # "" THEN [err |-> s.err, qartod |-> None]
              ELSE read_qartod(c) : s \in {source_init(entry.args)}})

\* cat[name] and a load of the source: the entry's source is instantiated
\* and its parser looks the QC option up; the call issues no search request
OpenEntry ==
    /\ cat # None
    /\ cat[1].loaded
    /\ out.op = "_load"
    /\ \E i \in DOMAIN cat[1].entries :
       \E r \in {open_entry(cat[1], cat[1].entries[i])} :
          out' = [op |-> "entry", err |-> r.err, qartod |-> r.qartod,
                  name |-> cat[1].entries[i].name,
                  driver |-> cat[1].entries[i].driver]
    /\ urls' = <<>>
    /\ data_raw' = <<>>
    /\ UNCHANGED <<metadata, qartod, use_units, kwargs_search, dataframe,
                   schema, filters, api, set_order, cat>>

NextCat == Construct \/ CatLoad \/ OpenEntry

SpecCat == InitCat /\ [][NextCat]_vars

\* the constructor has returned or raised
Constructed == out.op = "AXDSCatalog"

\* the catalog's _load has returned or raised
CatLoaded == out.op = "_load"

\* some but not all of the options of a check were given
Incomplete(given, check) == given \cap check # {} /\ ~(check \subseteq given)

C15_UnsupportedDatatypeValueError ==
    (Constructed /\ out.datatype \notin allowed_datatypes)
        => out.err = "ValueError" /\ cat = None

\* C16: when the response to a search URL has no "results" key, the load
\* raises ValueError and the catalog has no entry, whatever the URLs before
\* it returned.
C16_NoResultsRaises ==
    (CatLoaded /\ None \in Range(data_raw))
        => out.err = "ValueError" /\ cat[1].entries = <<>>

\* the second search URL had no results after the first returned some
C16_Witness ==
    /\ CatLoaded
    /\ Len(data_raw) = 2
    /\ data_raw[1] # None /\ data_raw[1][1] # <<>>
    /\ data_raw[2] = None
    /\ out.err = "ValueError"

\* the results of all the responses of the load, in order
RECURSIVE Gathered(_)
Gathered(resps) ==
    IF resps = <<>> THEN <<>> ELSE Head(resps)[1] \o Gathered(Tail(resps))

\* the results that are not webcams, in order
NotWebcams ==
    SelectSeq(Gathered(data_raw), LAMBDA r : "webcam" \notin Range(r.variables))

\* the first position of uuid among the results nw that are not webcams
FirstIn(nw, uuid) ==
    CHOOSE i \in DOMAIN nw :
        /\ nw[i].uuid = uuid
        /\ \A j \in DOMAIN nw : nw[j].uuid = uuid => i <= j

LoadRaised ==
    /\ out.loaded
    /\ out.err # ""
    /\ ~(out.err = "AttributeError" /\ out.dfs = <<None>>)

\* C21: a load that raises leaves the cache empty and hands out no table,
\* and the read that follows it runs a load again.
C21_AllOrNothing ==
    [][/\ LoadRaised' => (dataframe' = None /\ out'.df = None)
       /\ (LoadRaised /\ out'.op = "read") => out'.loaded]_vars

\* C22: the table a load leaves in the cache has no two columns of one name.
C22_NoDuplicateColumns ==
    dataframe # None =>
        \A c \in DOMAIN dataframe[1].columns :
            Cardinality(ColsNamed(dataframe[1], dataframe[1].columns[c])) = 1

\* what a table holds whatever the order of its columns: the index, the row
\* labels in their order, and each column's cells under its name (the n-th
\* of its name, for the names that occur more than once)
Content(T) ==
    [index_names |-> T.index_names,
     keys |-> [i \in DOMAIN T.rows |-> T.rows[i].key],
     cols |-> {<<T.columns[c],
                 Cardinality({d \in 1..c : T.columns[d] = T.columns[c]}),
                 [i \in DOMAIN T.rows |-> T.rows[i].cells[c]]>> :
               c \in DOMAIN T.columns}]

\* the load of the station with its filters in order o, the network up
LoadInOrder(o) == load(metadata, kwargs_search, qartod, o, api, "continue", 0)

\* C23: a load of a version-1 station gives a table for one order of its
\* filters exactly when it gives one for every order, and the tables of all
\* orders have the same row labels in the same order and the same cells
\* under the same column names.  The feeds of the responses all have one
\* index structure, the time alone.
C23_OrderIndependent ==
    (Loaded /\ metadata.version = 1) =>
        \A o \in Orders(PgidSet(metadata)) :
            \E A \in {LoadInOrder(set_order)} : \E B \in {LoadInOrder(o)} :
                /\ (A.err = "") <=> (B.err = "")
                /\ (A.err = "" /\ A.df # None)
                      => (B.df # None /\ Content(A.df[1]) = Content(B.df[1]))

\* a load joined the feeds of two filters, taken in the order 25 then 22,
\* that have no timestamp in common
C23_Witness ==
    /\ Loaded
    /\ metadata.version = 1
    /\ set_order = <<25, 22>>
    /\ out.err = ""
    /\ dataframe # None
    /\ dataframe = LoadInOrder(set_order).df
    /\ Len(dataframe[1].rows) = 2
    /\ \E c \in DOMAIN dataframe[1].columns : dataframe[1].rows[1].cells[c] = NA
    /\ \E c \in DOMAIN dataframe[1].columns : dataframe[1].rows[2].cells[c] = NA

\* C24: a load whose requests were all answered and parsed has at least one
\* table to assemble, and does not fail on the first of none.
C24_AssemblerGetsTables ==
    (Loaded /\ Len(out.dfs) = Len(filters))
        => (out.dfs # <<>> /\ out.err # "IndexError")

\* the feeds of the parsed response that get as far as the masking loop
Maskable ==
    {i \in DOMAIN ParsedFeeds :
        /\ ~(ParsedFeeds[i].lon # None \/ ParsedFeeds[i].lat # None)
        /\ DataLookupOk(ParsedFeeds[i], metadata.variables_details)
        /\ QaLookupOk(ParsedFeeds[i], metadata.variables_details)}

\* the table of feed i as it enters the masking loop, QC columns included
Unmasked(i) ==
    frame(ParsedFeeds[i],
          data_cols(ParsedFeeds[i], metadata.variables_details)
            \o qa_cols(ParsedFeeds[i], metadata.variables_details))

\* the masking loop of lines 159-164 on table T of feed i
Mask(T, i) ==
    MaskAll(T, qa_cols(ParsedFeeds[i], metadata.variables_details),
            MaskFlags(qartod))

C26_IndexIsTimeThenDepth ==
    \A i \in Built :
        LET T == out.dfs[i]
            feed == ParsedFeeds[i]
        IN /\ T.index_names[1] = make_label(feed.time.label, feed.time.units)
           /\ Len(T.index_names) = (IF feed.z = None THEN 1 ELSE 2)
           /\ feed.z # None
                => T.index_names[2] = make_label(feed.z[1].label, feed.z[1].units)
           /\ \A r \in DOMAIN T.rows :
                 /\ Len(T.rows[r].key) = Len(T.index_names)
                 /\ T.rows[r].key[1] = feed.data[r][feed.time.index]
                 /\ feed.z # None
                      => T.rows[r].key[2] = feed.data[r][feed.z[1].index]
           /\ \A c \in DOMAIN T.columns :
                 /\ T.columns[c] \notin Range(T.index_names)
                 /\ \/ \E k \in DOMAIN feed.values :
                          T.columns[c] = DataName(feed.values[k])
                    \/ \E k \in DOMAIN feed.qcAgg :
                          T.columns[c] = QcName(feed.qcAgg[k])

\* a feed with a depth was parsed with its QC columns kept: its table has
\* the two index levels, a data column and a QC column
C26_Witness ==
    /\ Parsed
    /\ out.err = ""
    /\ qartod = QBool(TRUE)
    /\ Built = {1}
    /\ ParsedFeeds[1].z # None
    /\ Len(out.dfs[1].index_names) = 2
    /\ \E c \in DOMAIN out.dfs[1].columns : IsQcName(out.dfs[1].columns[c])
    /\ \E c \in DOMAIN out.dfs[1].columns : ~IsQcName(out.dfs[1].columns[c])

\* C27: the source of every sensor_station entry of the catalog is
\* instantiated without error, and the QC option its parser reads is the one
\* the catalog was constructed with.
C27_OptionsReachParser ==
    (out.op = "entry" /\ out.driver = "AXDSSensorSource")
        => (out.err = "" /\ out.qartod = Some(qartod))

\* the start and the end a data URL carries
StartOf(url) == url[Len(url) - 4]

EndOf(url) == url[Len(url) - 1]

\* C28: every data URL of a load carries the formatted min_time and max_time
\* of kwargs_search when it has both, and the formatted minTime and maxTime
\* of the station's metadata when it lacks either.
C28_OneWindowPerLoad ==
    Loaded =>
        \A i \in DOMAIN urls :
            IF {"min_time", "max_time"} \subseteq DOMAIN kwargs_search
            THEN /\ StartOf(urls[i]) = strftime(kwargs_search["min_time"])
                 /\ EndOf(urls[i]) = strftime(kwargs_search["max_time"])
            ELSE /\ StartOf(urls[i]) = strftime(metadata.minTime)
                 /\ EndOf(urls[i]) = strftime(metadata.maxTime)

\* a load with a min_time alone in kwargs_search has issued two requests
C28_Witness ==
    /\ Loaded
    /\ DOMAIN kwargs_search = {"min_time"}
    /\ Len(urls) = 2
    /\ StartOf(urls[1]) = "t0"
    /\ StartOf(urls[2]) = "t0"
    /\ EndOf(urls[2]) = "t9"

\* C29: every filter of a load is the one make_filter gives for the
\* station's internal id, with the filter's parameter group on a version-1
\* station and without a group on any other.
C29_FiltersFromMakeFilter ==
    (Loaded /\ metadata.internal_id = Some(ToString(106793))) =>
        \A i \in DOMAIN filters :
            filters[i] = IF metadata.version = 1
                         THEN make_filter(106793, Some(set_order[i]))
                         ELSE make_filter(106793, None)

\* C30: with a string or a list of accepted flags, a feed that has no QC
\* descriptor is parsed without error and every data cell of its table holds
\* the value of the row records.
C30_NoQcDescriptorsNoMasking ==
    (/\ Parsed
     /\ IsStrOrList(qartod)
     /\ Len(ParsedFeeds) = 1
     /\ 1 \in Maskable
     /\ ParsedFeeds[1].qcAgg = <<>>)
        => (out.err = "" /\ Built = {1} /\ DataUntouched(1))

=============================================================================
